---- MODULE Spec2Model ----
(***************************************************************************)
(* Windows CPU / NUMA affinity resolution of the kubelet container        *)
(* manager: pkg/kubelet/cm/internal_container_lifecycle_windows.go.       *)
(*                                                                         *)
(* A uint64 affinity mask is represented by the set of its set bit        *)
(* positions (a subset of 0..63): 1 << k is {k}, a | b is a \cup b and    *)
(* testing bit k is k \in a.  A Go map[int]struct{} is the set of its     *)
(* keys, a map[int]uint64 a function on its keys, a slice a sequence.     *)
(***************************************************************************)
EXTENDS Integers, Sequences, FiniteSets, TLC

\* ---------------------------------------------------------------- bounds
\* processor groups 0..MaxGroup exist on the modelled host
MaxGroup == 1
\* NUMA nodes 0..MaxNode exist on the modelled host
MaxNode == 1

\* ------------------------------------------------------ program constants
\* processors per processor group: cpu / 64, cpu % 64
GroupSize == 64
\* width of GROUP_AFFINITY.Group and of the NUMA node number: uint16(...)
Uint16Range == 65536

\* ------------------------------------------------------------ input sets
Groups == 0..MaxGroup
Nodes == 0..MaxNode
\* bit positions used inside a group: the lowest and the highest of a mask
BitPositions == {0, GroupSize - 1}
Masks == SUBSET BitPositions
CPUs == {g * GroupSize + b : g \in Groups, b \in BitPositions}
CPUSets == SUBSET CPUs
\* inputs of the unit tests of the helpers, next to the host's CPU sets
TestSets == CPUSets \cup {{0, 1, 2, 3}, {64, 65, 66, 67}, {0, 65}, {1, 2}, {1, 2, 3}, {1, 4}}

\* result of winstats.GetCPUsforNUMANode: an error, or one GROUP_AFFINITY (a
\* mask without processors is the same in every group and is listed once)
LookupResults == [ok : {FALSE}, Group : {0}, Mask : {{}}]
                   \cup [ok : {TRUE}, Group : {0}, Mask : {{}}]
                   \cup [ok : {TRUE}, Group : Groups, Mask : Masks \ {{}}]
UnknownNode == [ok |-> FALSE, Group |-> 0, Mask |-> {}]

\* containerConfig.Windows.Resources.AffinityCpus as handed in by the caller
NilAffinity == [isNil |-> TRUE, list |-> <<>>]
InitialAffinities == {NilAffinity,
                      [isNil |-> FALSE, list |-> <<[CpuGroup |-> 0, CpuMask |-> {5}]>>]}

NilSet == [isNil |-> TRUE, set |-> {}]
NoError == [failed |-> FALSE, node |-> 0]
NoCall == [fn |-> "none", arg1 |-> {}, arg2 |-> {}, result |-> {}]

VARIABLES
  pc,               \* "idle", "running" (inside PreCreateContainer), "done"
  featureGate,      \* WindowsCPUAndMemoryAffinity enabled
  cpuManager,       \* i.cpuManager != nil
  memoryManager,    \* i.memoryManager != nil
  allocatedCPUs,    \* result of GetCPUAffinity (empty without CPU manager)
  numaNodes,        \* result of GetMemoryNUMANodes (empty without memory manager)
  topology,         \* the host: what GetCPUsforNUMANode answers for each node
  branch,           \* branch of the if / else-if chain taken
  pending,          \* rest of sets.List(numaNodes) still to be looked up
  allNumaNodeCPUs,  \* GROUP_AFFINITY values gathered so far
  lookups,          \* log of the GetCPUsforNUMANode calls of this call
  finalCPUSet,      \* nil, or the selected set of CPU ids
  AffinityCpus,     \* containerConfig.Windows.Resources.AffinityCpus
  oldAffinityCpus,  \* AffinityCpus at the entry of the call
  written,          \* the assignment to AffinityCpus was executed
  err,              \* error returned by PreCreateContainer
  call              \* last direct call of a helper and its result

vars == <<pc, featureGate, cpuManager, memoryManager, allocatedCPUs, numaNodes,
          topology, branch, pending, allNumaNodeCPUs, lookups, finalCPUSet,
          AffinityCpus, oldAffinityCpus, written, err, call>>

\* ---------------------------------------------------------------- helpers
Min(S) == CHOOSE x \in S : \A y \in S : x <= y

RECURSIVE SortedList(_)
\* sets.List / cpuset.CPUSet.List: the members in ascending order
SortedList(S) == IF S = {} THEN <<>> ELSE <<Min(S)>> \o SortedList(S \ {Min(S)})

\* uint16(x)
ToUint16(x) == x % Uint16Range

\* GROUP_AFFINITY.Processors: the processor ids of one group affinity
Processors(affinity) == {affinity.Group * GroupSize + b : b \in affinity.Mask}

RECURSIVE computeCPUSet(_)
\* computeCPUSet: every processor of every affinity of the slice
computeCPUSet(affinities) ==
  IF affinities = <<>> THEN {}
  ELSE Processors(Head(affinities)) \cup computeCPUSet(Tail(affinities))

RECURSIVE subset(_, _)
\* subset: false at the first key of set1 missing from set2
subset(set1, set2) ==
  IF set1 = {} THEN TRUE
  ELSE LET k == Min(set1) IN
       IF k \notin set2 THEN FALSE ELSE subset(set1 \ {k}, set2)

mergeSetsBroken(set1, set2) == set2

\* mergeSets: the keys of set1, then the keys of set2
mergeSets(set1, set2) == {k \in set1 \cup set2 : k \in set1 \/ k \in set2}

RECURSIVE ConvertList(_)
ConvertList(cpus) ==
  IF cpus = <<>> THEN <<>>
  ELSE LET cpu == Head(cpus)
           group == cpu \div GroupSize
           processor == cpu % GroupSize
       IN <<[Group |-> ToUint16(group), Mask |-> {processor}]>> \o ConvertList(Tail(cpus))

RECURSIVE ConvertListSwapped(_)
ConvertListSwapped(cpus) ==
  IF cpus = <<>> THEN <<>>
  ELSE LET cpu == Head(cpus)
           group == cpu % GroupSize
           processor == cpu \div GroupSize
       IN <<[Group |-> ToUint16(group), Mask |-> {processor}]>>
            \o ConvertListSwapped(Tail(cpus))

convertToGroupAffinitiesSwapped(cpuSet) == ConvertListSwapped(SortedList(cpuSet))

\* convertToGroupAffinities: one single-bit GROUP_AFFINITY per CPU of the list
convertToGroupAffinities(cpuSet) == ConvertList(SortedList(cpuSet))

RECURSIVE groupMasksLastWins(_)
groupMasksLastWins(cpuSet) ==
  IF cpuSet = {} THEN <<>>
  ELSE LET cpu == CHOOSE c \in cpuSet : \A d \in cpuSet : d <= c
           rest == groupMasksLastWins(cpuSet \ {cpu})
           group == cpu \div GroupSize
           mask == {cpu % GroupSize}
       IN [g \in DOMAIN rest \cup {group} |-> IF g = group THEN mask ELSE rest[g]]

RECURSIVE groupMasks(_)
\* groupMasks: groupMasks[group] |= 1 << (cpu % 64) for every cpu
groupMasks(cpuSet) ==
  IF cpuSet = {} THEN <<>>
  ELSE LET cpu == CHOOSE c \in cpuSet : \A d \in cpuSet : d <= c
           rest == groupMasks(cpuSet \ {cpu})
           group == cpu \div GroupSize
           mask == {cpu % GroupSize}
           previous == IF group \in DOMAIN rest THEN rest[group] ELSE {}
       IN [g \in DOMAIN rest \cup {group} |->
             IF g = group THEN previous \cup mask ELSE rest[g]]

\* orders in which `for group, mask := range m` may visit the keys of a map
Orderings(keys) ==
  {order \in [1..Cardinality(keys) -> keys] :
     \A i, j \in 1..Cardinality(keys) : i # j => order[i] # order[j]}

\* ------------------------------------------------- PreCreateContainer
\* the conditions of the if / else-if chain, in their order
SelectBranch(cm, cpus, mm, nodes) ==
  IF cm /\ cpus # {} /\ mm /\ Cardinality(nodes) > 0 THEN "both"
  ELSE IF cm /\ cpus # {} THEN "cpuOnly"
  ELSE IF mm /\ cpus # {} THEN "memOnly"
  ELSE "none"

ResolveBothNumaOnSubset(cpuSet, numaSet) ==
  IF Cardinality(cpuSet) > Cardinality(numaSet) THEN cpuSet
  ELSE IF subset(cpuSet, numaSet) THEN numaSet
  ELSE mergeSets(cpuSet, numaSet)

ResolveBothAlwaysMerge(cpuSet, numaSet) ==
  IF subset(cpuSet, numaSet) THEN cpuSet
  ELSE mergeSets(cpuSet, numaSet)

ResolveBothIntersect(cpuSet, numaSet) ==
  IF Cardinality(cpuSet) > Cardinality(numaSet) THEN cpuSet
  ELSE IF subset(cpuSet, numaSet) THEN cpuSet
  ELSE {k \in cpuSet : k \in numaSet}

\* cases 1, 2 and 3 of the branch in which both managers answered
ResolveBoth(cpuManagerAffinityCPUSet, numaNodeAffinityCPUSet) ==
  IF Cardinality(cpuManagerAffinityCPUSet) > Cardinality(numaNodeAffinityCPUSet)
  THEN cpuManagerAffinityCPUSet
  ELSE IF subset(cpuManagerAffinityCPUSet, numaNodeAffinityCPUSet)
  THEN cpuManagerAffinityCPUSet
  ELSE mergeSets(cpuManagerAffinityCPUSet, numaNodeAffinityCPUSet)

\* finalCPUSet once the lookups of the taken branch are through
FinalCPUSet(br, cpus, numaCPUs) ==
  CASE br = "both" ->
         [isNil |-> FALSE,
          set |-> ResolveBoth(computeCPUSet(convertToGroupAffinities(cpus)),
                              computeCPUSet(numaCPUs))]
    [] br = "cpuOnly" ->
         [isNil |-> FALSE, set |-> computeCPUSet(convertToGroupAffinities(cpus))]
    [] br = "memOnly" -> [isNil |-> FALSE, set |-> computeCPUSet(numaCPUs)]
    [] OTHER -> NilSet

\* cpusToGroupAffinities for one iteration order of groupMasks(finalCPUSet)
GroupAffinityList(final, order) ==
  LET gm == groupMasks(final) IN
  [i \in 1..Len(order) |-> [CpuGroup |-> order[i], CpuMask |-> gm[order[i]]]]

SetAffinityUnguarded(final, old, order) ==
  LET list == GroupAffinityList(final.set, order) IN
  [isNil |-> Len(list) = 0, list |-> list]

\* AffinityCpus after the `if finalCPUSet != nil` block
SetAffinity(final, old, order) ==
  IF ~final.isNil
  THEN LET list == GroupAffinityList(final.set, order) IN
       [isNil |-> Len(list) = 0, list |-> list]
  ELSE old

\* the host's answers: GetCPUsforNUMANode(n) for the nodes the memory manager
\* reports; no answer is known for the others
HostTopology(answers) ==
  [n \in Nodes |-> IF n \in DOMAIN answers THEN answers[n] ELSE UnknownNode]

Init ==
  /\ pc = "idle"
  /\ featureGate = FALSE
  /\ cpuManager = FALSE
  /\ memoryManager = FALSE
  /\ allocatedCPUs = {}
  /\ numaNodes = {}
  /\ topology = HostTopology(<<>>)
  /\ branch = "none"
  /\ pending = <<>>
  /\ allNumaNodeCPUs = <<>>
  /\ lookups = <<>>
  /\ finalCPUSet = NilSet
  /\ AffinityCpus = NilAffinity
  /\ oldAffinityCpus = AffinityCpus
  /\ written = FALSE
  /\ err = NoError
  /\ call = NoCall

\* entry of PreCreateContainer up to the choice of the branch; the call binds
\* the containerConfig handed in by the caller, and the managers are only
\* queried behind the feature gate
PreCreateContainer ==
  /\ pc = "idle"
  /\ oldAffinityCpus' \in InitialAffinities
  /\ AffinityCpus' = oldAffinityCpus'
  /\ \E gate \in BOOLEAN, cm \in BOOLEAN, mm \in BOOLEAN :
       /\ featureGate' = gate
       /\ cpuManager' = cm
       /\ memoryManager' = mm
       /\ IF ~gate
          THEN /\ allocatedCPUs' = {}
               /\ numaNodes' = {}
               /\ topology' = HostTopology(<<>>)
               /\ pc' = "done"
               /\ branch' = "gateOff"
               /\ pending' = <<>>
          ELSE /\ allocatedCPUs' \in (IF cm THEN CPUSets ELSE {{}})
               /\ numaNodes' \in (IF mm THEN SUBSET Nodes ELSE {{}})
               /\ \E answers \in [numaNodes' -> LookupResults] :
                    topology' = HostTopology(answers)
               /\ pc' = "running"
               /\ branch' = SelectBranch(cm, allocatedCPUs', mm, numaNodes')
               /\ pending' = IF branch' \in {"both", "memOnly"}
                             THEN SortedList(numaNodes') ELSE <<>>
  /\ UNCHANGED <<allNumaNodeCPUs, lookups, finalCPUSet, written, err, call>>

LookupErrorIgnored(numaNode) ==
  /\ pending' = Tail(pending)
  /\ UNCHANGED <<pc, err, allNumaNodeCPUs, AffinityCpus, written>>

LookupErrorFallback(numaNode) ==
  /\ err' = [failed |-> TRUE, node |-> numaNode]
  /\ pc' = "done"
  /\ \E order \in Orderings(DOMAIN groupMasks(allocatedCPUs)) :
       AffinityCpus' = SetAffinity([isNil |-> FALSE, set |-> allocatedCPUs],
                                   AffinityCpus, order)
  /\ written' = TRUE
  /\ UNCHANGED <<pending, allNumaNodeCPUs>>

\* `return fmt.Errorf("failed to get CPUs for NUMA node %d: %v", numaNode, err)`
LookupError(numaNode) ==
  /\ err' = [failed |-> TRUE, node |-> numaNode]
  /\ pc' = "done"
  /\ UNCHANGED <<pending, allNumaNodeCPUs, AffinityCpus, written>>

\* one iteration of `for _, numaNode := range sets.List(numaNodes)`
GetCPUsforNUMANode ==
  /\ pc = "running"
  /\ pending # <<>>
  /\ LET numaNode == Head(pending)
         affinity == topology[ToUint16(numaNode)]
     IN /\ lookups' = Append(lookups, [node |-> ToUint16(numaNode), ok |-> affinity.ok])
        /\ IF ~affinity.ok
           THEN LookupError(numaNode)
           ELSE /\ allNumaNodeCPUs' = Append(allNumaNodeCPUs,
                                             [Group |-> affinity.Group, Mask |-> affinity.Mask])
                /\ pending' = Tail(pending)
                /\ UNCHANGED <<pc, err, AffinityCpus, written>>
  /\ UNCHANGED <<featureGate, cpuManager, memoryManager, allocatedCPUs, numaNodes,
                 topology, branch, finalCPUSet, oldAffinityCpus, call>>

\* from the end of the lookups to `return nil`
Finish ==
  /\ pc = "running"
  /\ pending = <<>>
  /\ finalCPUSet' = FinalCPUSet(branch, allocatedCPUs, allNumaNodeCPUs)
  /\ \E order \in Orderings(DOMAIN groupMasks(finalCPUSet'.set)) :
       AffinityCpus' = SetAffinity(finalCPUSet', AffinityCpus, order)
  /\ written' = ~finalCPUSet'.isNil
  /\ pc' = "done"
  /\ UNCHANGED <<featureGate, cpuManager, memoryManager, allocatedCPUs, numaNodes,
                 topology, branch, pending, allNumaNodeCPUs, lookups,
                 oldAffinityCpus, err, call>>

\* the call has returned; the next one starts from scratch
Return ==
  /\ pc = "done"
  /\ pc' = "idle"
  /\ featureGate' = FALSE
  /\ cpuManager' = FALSE
  /\ memoryManager' = FALSE
  /\ allocatedCPUs' = {}
  /\ numaNodes' = {}
  /\ topology' = HostTopology(<<>>)
  /\ branch' = "none"
  /\ pending' = <<>>
  /\ allNumaNodeCPUs' = <<>>
  /\ lookups' = <<>>
  /\ finalCPUSet' = NilSet
  /\ AffinityCpus' = NilAffinity
  /\ oldAffinityCpus' = AffinityCpus'
  /\ written' = FALSE
  /\ err' = NoError
  /\ call' = NoCall

PureFrame ==
  UNCHANGED <<featureGate, cpuManager, memoryManager, allocatedCPUs, numaNodes,
              topology, branch, pending, allNumaNodeCPUs, lookups, finalCPUSet,
              AffinityCpus, oldAffinityCpus, written, err>>

\* TestSubset: subset(set1, set2)
CallSubset ==
  /\ pc = "idle"
  /\ \E set1 \in TestSets, set2 \in TestSets :
       call' = [fn |-> "subset", arg1 |-> set1, arg2 |-> set2,
                result |-> subset(set1, set2)]
  /\ pc' = "done"
  /\ PureFrame

\* TestConvertToGroupAffinities: convertToGroupAffinities(cpuSet)
CallConvertToGroupAffinities ==
  /\ pc = "idle"
  /\ \E cpuSet \in TestSets :
       call' = [fn |-> "convertToGroupAffinities", arg1 |-> cpuSet, arg2 |-> {},
                result |-> convertToGroupAffinities(cpuSet)]
  /\ pc' = "done"
  /\ PureFrame

\* TestGroupMasks: groupMasks(cpuSet)
CallGroupMasks ==
  /\ pc = "idle"
  /\ \E cpuSet \in TestSets :
       call' = [fn |-> "groupMasks", arg1 |-> cpuSet, arg2 |-> {},
                result |-> groupMasks(cpuSet)]
  /\ pc' = "done"
  /\ PureFrame

Next ==
  \/ PreCreateContainer
  \/ GetCPUsforNUMANode
  \/ Finish
  \/ Return
  \/ CallSubset
  \/ CallConvertToGroupAffinities
  \/ CallGroupMasks

Spec == Init /\ [][Next]_vars

\* =================================================================
\* Properties
\* =================================================================
Range(seq) == {seq[i] : i \in DOMAIN seq}

\* the CPU ids an AffinityCpus list stands for: group * 64 + bit of every entry
Decode(affinity) ==
  UNION {{e.CpuGroup * GroupSize + b : b \in e.CpuMask} : e \in Range(affinity.list)}

\* PreCreateContainer has returned (and not a direct call of a helper)
Returned == pc = "done" /\ call.fn = "none"

\* the union of the CPUs of all NUMA nodes the memory manager reported
NumaSet == UNION {Processors(topology[n]) : n \in numaNodes}

AllLookupsSucceed == \A n \in numaNodes : topology[n].ok

CPUManagerAnswered == cpuManager /\ allocatedCPUs # {}
MemoryManagerAnswered == memoryManager /\ numaNodes # {}

BothAnswered ==
  featureGate /\ CPUManagerAnswered /\ MemoryManagerAnswered /\ AllLookupsSucceed

\* C1: both managers answered, every lookup succeeded, cpuSet is not larger
\* than numaSet and has a member outside numaSet: the affinity written
\* encodes exactly cpuSet \cup numaSet.
C1_UnionWritten ==
  (/\ Returned
   /\ BothAnswered
   /\ Cardinality(allocatedCPUs) <= Cardinality(NumaSet)
   /\ allocatedCPUs \ NumaSet # {})
  => (/\ ~err.failed
      /\ written
      /\ Decode(AffinityCpus) = allocatedCPUs \cup NumaSet)

C1_Witness ==
  /\ Returned
  /\ BothAnswered
  /\ Cardinality(allocatedCPUs) <= Cardinality(NumaSet)
  /\ allocatedCPUs \ NumaSet # {}
  /\ allocatedCPUs \cap NumaSet # {}
  /\ written
  /\ Decode(AffinityCpus) = allocatedCPUs \cup NumaSet
  /\ Decode(AffinityCpus) # allocatedCPUs
  /\ Decode(AffinityCpus) # NumaSet

\* C2: both managers answered, every lookup succeeded and |cpuSet| > |numaSet|:
\* the affinity written encodes exactly cpuSet, whatever the overlap, and holds
\* no CPU that is only in numaSet.
C2_LargerCPUSetWins ==
  (/\ Returned
   /\ BothAnswered
   /\ Cardinality(allocatedCPUs) > Cardinality(NumaSet))
  => (/\ ~err.failed
      /\ written
      /\ Decode(AffinityCpus) = allocatedCPUs
      /\ Decode(AffinityCpus) \cap (NumaSet \ allocatedCPUs) = {})

C2_Witness ==
  /\ Returned
  /\ BothAnswered
  /\ Cardinality(allocatedCPUs) > Cardinality(NumaSet)
  /\ NumaSet # {}
  /\ allocatedCPUs \cap NumaSet = {}
  /\ written
  /\ Decode(AffinityCpus) = allocatedCPUs

\* C3: both managers answered, every lookup succeeded and cpuSet is a subset of
\* numaSet: the affinity written encodes exactly cpuSet, not the wider numaSet;
\* and subset(A, B) is true exactly when every member of A is in B, so it is
\* true of the empty set and of A against itself.
C3_SubsetKeepsCPUSet ==
  /\ (/\ Returned
      /\ BothAnswered
      /\ allocatedCPUs \subseteq NumaSet)
     => (/\ Cardinality(allocatedCPUs) <= Cardinality(NumaSet)
         /\ ~err.failed
         /\ written
         /\ Decode(AffinityCpus) = allocatedCPUs)
  /\ (pc = "done" /\ call.fn = "subset")
     => (/\ call.result = (\A k \in call.arg1 : k \in call.arg2)
         /\ (call.arg1 = {} => call.result)
         /\ (call.arg1 = call.arg2 => call.result))

C3_Witness ==
  /\ Returned
  /\ BothAnswered
  /\ allocatedCPUs \subseteq NumaSet
  /\ allocatedCPUs # NumaSet
  /\ written
  /\ Decode(AffinityCpus) = allocatedCPUs

\* C4: only the memory manager answered and every lookup succeeds: the affinity
\* written encodes exactly the union of the CPUs of the reported NUMA nodes.
C4_MemoryOnlyWritesNumaSet ==
  (/\ Returned
   /\ featureGate
   /\ MemoryManagerAnswered
   /\ ~CPUManagerAnswered
   /\ AllLookupsSucceed)
  => (/\ ~err.failed
      /\ written
      /\ Decode(AffinityCpus) = NumaSet)

\* C5: only the CPU manager answered: no error, no NUMA lookup, and the affinity
\* written encodes exactly the CPU manager's set.
C5_CPUOnlyWritesCPUSet ==
  (/\ Returned
   /\ featureGate
   /\ CPUManagerAnswered
   /\ ~MemoryManagerAnswered)
  => (/\ ~err.failed
      /\ lookups = <<>>
      /\ written
      /\ Decode(AffinityCpus) = allocatedCPUs)

C5_Witness ==
  /\ Returned
  /\ featureGate
  /\ CPUManagerAnswered
  /\ memoryManager
  /\ numaNodes = {}
  /\ Cardinality({c \div GroupSize : c \in allocatedCPUs}) > 1
  /\ Cardinality(allocatedCPUs) > 2
  /\ lookups = <<>>
  /\ written
  /\ Decode(AffinityCpus) = allocatedCPUs

\* C6: once a NUMA lookup has failed, the call has returned an error naming
\* that node and AffinityCpus is what it was before the call: nothing was
\* written.
C6_LookupFailureLeavesConfig ==
  \A i \in DOMAIN lookups :
    ~lookups[i].ok
    => (/\ pc = "done"
        /\ err.failed
        /\ err.node = lookups[i].node
        /\ ~written
        /\ AffinityCpus = oldAffinityCpus)

C6_Witness ==
  /\ Returned
  /\ Len(lookups) = 2
  /\ lookups[1].ok
  /\ ~lookups[2].ok
  /\ Processors(topology[lookups[1].node]) # {}
  /\ err.failed
  /\ err.node = lookups[2].node
  /\ ~oldAffinityCpus.isNil
  /\ AffinityCpus = oldAffinityCpus

\* C7: when neither manager answered, the call returns no error and leaves
\* AffinityCpus untouched; and whenever the call writes AffinityCpus, the list
\* written has at least one entry.
C7_NothingSelectedNothingWritten ==
  /\ (Returned /\ ~CPUManagerAnswered /\ ~MemoryManagerAnswered)
     => (/\ ~err.failed
         /\ ~written
         /\ AffinityCpus = oldAffinityCpus)
  /\ written => (~AffinityCpus.isNil /\ Len(AffinityCpus.list) > 0)

C7_Witness ==
  /\ Returned
  /\ featureGate
  /\ cpuManager
  /\ memoryManager
  /\ allocatedCPUs = {}
  /\ numaNodes = {}
  /\ ~oldAffinityCpus.isNil
  /\ ~err.failed
  /\ AffinityCpus = oldAffinityCpus

\* the (group, mask) pairs of a groupMasks result as GROUP_AFFINITY values
GroupAffinitiesOf(gm) ==
  LET groups == SortedList(DOMAIN gm) IN
  [i \in 1..Len(groups) |-> [Group |-> ToUint16(groups[i]), Mask |-> gm[groups[i]]]]

\* C8: groupMasks(S) has an entry exactly for the groups c / 64 of the members
\* of S, each a non-zero mask whose bit b is set exactly when group * 64 + b is
\* in S, and computeCPUSet of its (group, mask) pairs is S again.
C8_GroupMasksRoundTrip ==
  (pc = "done" /\ call.fn = "groupMasks")
  => LET S == call.arg1
         gm == call.result
     IN /\ DOMAIN gm = {c \div GroupSize : c \in S}
        /\ \A g \in DOMAIN gm :
             /\ gm[g] # {}
             /\ \A b \in 0..(GroupSize - 1) : b \in gm[g] <=> (g * GroupSize + b) \in S
        /\ computeCPUSet(GroupAffinitiesOf(gm)) = S

C8_Witness ==
  /\ pc = "done"
  /\ call.fn = "groupMasks"
  /\ call.arg1 = {0, GroupSize - 1, GroupSize}
  /\ DOMAIN call.result = {0, 1}
  /\ call.result[0] = {0, GroupSize - 1}
  /\ call.result[1] = {0}
  /\ computeCPUSet(GroupAffinitiesOf(call.result)) = call.arg1

\* what TestConvertToGroupAffinities expects: one entry per group, ascending,
\* the mask being the OR of the bits of the members of that group
OneEntryPerGroup(S) ==
  LET groups == SortedList({c \div GroupSize : c \in S}) IN
  [i \in 1..Len(groups) |->
     [Group |-> groups[i],
      Mask |-> {c % GroupSize : c \in {d \in S : d \div GroupSize = groups[i]}}]]

\* C9: convertToGroupAffinities(S) returns one GROUP_AFFINITY per processor
\* group holding a member of S, in ascending group order, whose mask is the OR
\* of the bits cpu % 64 of the members of S in that group.
C9_OneAffinityPerGroup ==
  (pc = "done" /\ call.fn = "convertToGroupAffinities")
  => call.result = OneEntryPerGroup(call.arg1)

\* C10: the lookups of one call are for nodes the memory manager reported, at
\* most one per node, none follows a failed one, and there is none at all when
\* the memory manager reported no node.
C10_LookupDiscipline ==
  /\ \A i \in DOMAIN lookups : lookups[i].node \in numaNodes
  /\ \A i, j \in DOMAIN lookups : i # j => lookups[i].node # lookups[j].node
  /\ \A i \in DOMAIN lookups : i < Len(lookups) => lookups[i].ok
  /\ numaNodes = {} => lookups = <<>>

C10_Witness ==
  /\ Returned
  /\ Cardinality(numaNodes) = 2
  /\ \A n \in numaNodes : ~topology[n].ok
  /\ Len(lookups) = 1
  /\ ~lookups[1].ok
  /\ lookups[1].node = Min(numaNodes)

\* the list with one entry per group of a set of CPU ids, in ascending group
\* index, each mask holding the bits of the members of that group
AscendingAffinityList(S) ==
  LET groups == SortedList({c \div GroupSize : c \in S}) IN
  [i \in 1..Len(groups) |->
     [CpuGroup |-> groups[i],
      CpuMask |-> {c % GroupSize : c \in {d \in S : d \div GroupSize = groups[i]}}]]

\* C11: the AffinityCpus list written has exactly one (group, mask) entry per
\* non-empty group of the final set and its entries are in ascending group
\* index, so that one final set always gives one list.
C11_AscendingGroupOrder ==
  (Returned /\ written)
  => AffinityCpus.list = AscendingAffinityList(finalCPUSet.set)

\* C12: when the CPU manager reported a non-empty set and the call returned
\* without error, an affinity was written and every CPU of that set is in it,
\* in every branch and whatever the memory manager reported.
C12_CPUManagerSelectionKept ==
  (Returned /\ CPUManagerAnswered /\ ~err.failed)
  => (/\ written
      /\ \A cpu \in allocatedCPUs : cpu \in Decode(AffinityCpus))

C12_Witness ==
  /\ Returned
  /\ CPUManagerAnswered
  /\ MemoryManagerAnswered
  /\ ~err.failed
  /\ branch = "both"
  /\ written
  /\ allocatedCPUs \subseteq Decode(AffinityCpus)
  /\ Decode(AffinityCpus) \ allocatedCPUs # {}
  /\ Cardinality(allocatedCPUs) > 1

====
